---- MODULE Spec2Model ----
(***************************************************************************)
(* Model of toolchain/check/merge.cpp (Carbon): the declaration-merge      *)
(* resolver.  One action per exported entry point; each action runs the    *)
(* whole call and records what the call did (loads, constant-value reads,  *)
(* diagnostics, merger invocations, fatal aborts) as an ordered trace.     *)
(***************************************************************************)
EXTENDS Integers, Sequences, FiniteSets, TLC

VARIABLES insts, constant_values, name_scopes, call, ncalls

vars == <<insts, constant_values, name_scopes, call, ncalls>>

(* ---------------------------------------------------------------- bounds *)
MaxCalls == 2
NumNodes == 1

(* ------------------------------------------------------------ id spaces *)
InvalidInstId == -1
InvalidImportIRInstId == -1
InvalidLocId == -1
InvalidFunctionId == -1

InstIds == 1..7
ScopeIds == 1..2
NameIds == 1..2
NodeIds == 1..NumNodes
RebindIds == {6, 1}

(* SemIR instruction kinds that occur in the store.                        *)
AnyImportRef == {"ImportRefUnloaded", "ImportRefUsed"}

Inst(kind, import_id, used_id, function_id) ==
  [kind |-> kind, import_ir_inst_id |-> import_id, used_id |-> used_id,
   function_id |-> function_id]

NoInst == Inst("None", InvalidImportIRInstId, InvalidLocId, InvalidFunctionId)

(* ConstantId: either not a constant, or the id of the canonical inst.     *)
NotConstant == [is_constant |-> FALSE, inst_id |-> InvalidInstId]
ConstantFor(id) == [is_constant |-> TRUE, inst_id |-> id]

(* The instruction arena the earlier phases built.                         *)
InitInsts ==
  (1 :> Inst("ImportRefUnloaded", 11, InvalidLocId, InvalidFunctionId)) @@
  (2 :> Inst("ImportRefUnloaded", 12, InvalidLocId, InvalidFunctionId)) @@
  (3 :> Inst("ImportRefUsed", 13, 210, InvalidFunctionId)) @@
  (4 :> Inst("Namespace", InvalidImportIRInstId, InvalidLocId, InvalidFunctionId)) @@
  (5 :> Inst("FunctionDecl", InvalidImportIRInstId, InvalidLocId, 1)) @@
  (6 :> Inst("FunctionDecl", InvalidImportIRInstId, InvalidLocId, 2)) @@
  (7 :> Inst("ClassDecl", InvalidImportIRInstId, InvalidLocId, InvalidFunctionId))

(* Instructions a constant value can designate (compile-time entities).    *)
ConstantInstIds == {5, 6, 7}
LoadTargets == {NotConstant} \cup {ConstantFor(i) : i \in ConstantInstIds}

InitNameScopes ==
  (1 :> ((1 :> 3) @@ (2 :> 5))) @@
  (2 :> (1 :> 4))

(* Outcomes of reading the arena out of range (InstId::Invalid).           *)
OutOfRangeOutcomes == {"abort"} \cup {"inst5", "inst1"}

(* ------------------------------------------------------------ the stores *)
InstsGet(store, id, oob) ==
  IF id \in DOMAIN store THEN [fatal |-> FALSE, inst |-> store[id]]
  ELSE IF oob = "abort" THEN [fatal |-> TRUE, inst |-> NoInst]
  ELSE IF oob = "inst5" THEN [fatal |-> FALSE, inst |-> InitInsts[5]]
  ELSE [fatal |-> FALSE, inst |-> InitInsts[1]]

GetLocId(inst_id) == 100 + inst_id

FunctionsGet(function_id) == [function_id |-> function_id]

(* ---------------------------------------------------------------- events *)
EvLoad(inst_id, loc_id) ==
  [ev |-> "LoadImportRef", inst_id |-> inst_id, loc_id |-> loc_id]

EvConstGet(inst_id) == [ev |-> "ConstantValuesGet", inst_id |-> inst_id]

EvFatal(inst_id, inst) ==
  [ev |-> "Fatal", where |-> "ResolveMergeableInst", inst_id |-> inst_id,
   inst |-> inst]

EvFatalStore(id) ==
  [ev |-> "Fatal", where |-> "InstStore::Get", inst_id |-> id, inst |-> NoInst]

RedeclOfUsedImport(node_id, used_id) ==
  [ev |-> "Diag", diag |-> "RedeclOfUsedImport", level |-> "Error",
   loc |-> node_id,
   notes |-> <<[diag |-> "UsedImportLoc", level |-> "Note", loc |-> used_id]>>]

DiagnoseDuplicateName(new_inst_id, prev_inst_id) ==
  [ev |-> "Diag", diag |-> "DuplicateName", new_inst_id |-> new_inst_id,
   prev_inst_id |-> prev_inst_id]

TODO(new_inst_id) ==
  [ev |-> "Diag", diag |-> "TODO", loc |-> new_inst_id,
   message |-> "Merging not yet supported."]

MergeFunctionRedecl(loc_id, new_fn, new_is_import, new_is_definition, prev_function_id, prev_import_ir_inst_id) ==
  [ev |-> "MergeFunctionRedecl", loc_id |-> loc_id, new_fn |-> new_fn,
   new_is_import |-> new_is_import, new_is_definition |-> new_is_definition,
   prev_function_id |-> prev_function_id,
   prev_import_ir_inst_id |-> prev_import_ir_inst_id]

(* A running call: the stores it works on and what it has done so far.     *)
Ctx(i, c) == [insts |-> i, constant_values |-> c, trace |-> <<>>, fatal |-> FALSE]

Emit(ctx, e) == [ctx EXCEPT !.trace = Append(@, e)]

Abort(ctx, e) == [ctx EXCEPT !.trace = Append(@, e), !.fatal = TRUE]

InstForMerge(inst, import_id) ==
  [has_value |-> TRUE, inst |-> inst, import_ir_inst_id |-> import_id]

Nullopt ==
  [has_value |-> FALSE, inst |-> NoInst, import_ir_inst_id |-> InvalidImportIRInstId]

(* Import Loader: turns an unloaded reference into a loaded one and        *)
(* records its constant value; a no-op on anything else.                   *)
LoadImportRef(ctx, inst_id, loc_id, target) ==
  LET c == Emit(ctx, EvLoad(inst_id, loc_id)) IN
  IF ctx.insts[inst_id].kind # "ImportRefUnloaded" THEN c
  ELSE [c EXCEPT
          !.insts[inst_id] = Inst("ImportRefUsed", ctx.insts[inst_id].import_ir_inst_id,
                                  loc_id, InvalidFunctionId),
          !.constant_values[inst_id] = target]

(* ------------------------------------------------- ResolvePrevInstForMerge *)
(* Variant: the used-import diagnostic is issued for every import          *)
(* reference, whether or not it is marked used.                            *)
ResolvePrevInstForMerge_DiagAnyImportRef(ctx, node_id, prev_inst_id, oob) ==
  LET prev_inst == ctx.insts[prev_inst_id]
      is_import_ref == prev_inst.kind \in AnyImportRef
      c1 == IF is_import_ref
            THEN Emit(ctx, RedeclOfUsedImport(node_id, prev_inst.used_id))
            ELSE ctx
      c2 == Emit(c1, EvConstGet(prev_inst_id))
      target == c2.constant_values[prev_inst_id].inst_id
      got == InstsGet(c2.insts, target, oob)
  IN IF ~is_import_ref
     THEN [ctx |-> ctx, res |-> InstForMerge(prev_inst, InvalidImportIRInstId)]
     ELSE IF got.fatal
     THEN [ctx |-> Abort(c2, EvFatalStore(target)), res |-> Nullopt]
     ELSE [ctx |-> c2, res |-> InstForMerge(got.inst, prev_inst.import_ir_inst_id)]

(* Variant: the constant-value lookup is hoisted above the early return.   *)
ResolvePrevInstForMerge_ReadsFirst(ctx, node_id, prev_inst_id, oob) ==
  LET prev_inst == ctx.insts[prev_inst_id]
      is_import_ref == prev_inst.kind \in AnyImportRef
      c0 == Emit(ctx, EvConstGet(prev_inst_id))
      c2 == IF prev_inst.kind = "ImportRefUsed"
            THEN Emit(c0, RedeclOfUsedImport(node_id, prev_inst.used_id))
            ELSE c0
      target == c2.constant_values[prev_inst_id].inst_id
      got == InstsGet(c2.insts, target, oob)
  IN IF ~is_import_ref
     THEN [ctx |-> c0, res |-> InstForMerge(prev_inst, InvalidImportIRInstId)]
     ELSE IF got.fatal
     THEN [ctx |-> Abort(c2, EvFatalStore(target)), res |-> Nullopt]
     ELSE [ctx |-> c2, res |-> InstForMerge(got.inst, prev_inst.import_ir_inst_id)]

(* Returns [ctx, res]: the call's context afterwards and its return value. *)
ResolvePrevInstForMerge(ctx, node_id, prev_inst_id, oob) ==
  LET prev_inst == ctx.insts[prev_inst_id]
      is_import_ref == prev_inst.kind \in AnyImportRef
      c1 == IF prev_inst.kind = "ImportRefUsed"
            THEN Emit(ctx, RedeclOfUsedImport(node_id, prev_inst.used_id))
            ELSE ctx
      c2 == Emit(c1, EvConstGet(prev_inst_id))
      target == c2.constant_values[prev_inst_id].inst_id
      got == InstsGet(c2.insts, target, oob)
  IN IF ~is_import_ref
     THEN [ctx |-> ctx, res |-> InstForMerge(prev_inst, InvalidImportIRInstId)]
     ELSE IF got.fatal
     THEN [ctx |-> Abort(c2, EvFatalStore(target)), res |-> Nullopt]
     ELSE [ctx |-> c2, res |-> InstForMerge(got.inst, prev_inst.import_ir_inst_id)]

(* ---------------------------------------------------- ResolveMergeableInst *)
(* Variant: the default case returns the instruction like a Namespace.     *)
ResolveMergeableInst_DefaultReturnsInst(ctx, inst_id, target) ==
  LET inst == ctx.insts[inst_id]
      c1 == IF inst.kind = "ImportRefUnloaded"
            THEN LoadImportRef(ctx, inst_id, InvalidLocId, target)
            ELSE ctx
      c2 == Emit(c1, EvConstGet(inst_id))
      const_id == c2.constant_values[inst_id]
  IN CASE inst.kind \in AnyImportRef ->
            IF ~const_id.is_constant
            THEN [ctx |-> c2, res |-> Nullopt]
            ELSE [ctx |-> c2,
                  res |-> InstForMerge(c2.insts[const_id.inst_id],
                                       inst.import_ir_inst_id)]
       [] OTHER ->
            [ctx |-> ctx, res |-> InstForMerge(inst, InvalidImportIRInstId)]

(* Variant: the default case reports "not mergeable" instead of aborting.  *)
ResolveMergeableInst_DefaultNullopt(ctx, inst_id, target) ==
  LET inst == ctx.insts[inst_id]
      c1 == IF inst.kind = "ImportRefUnloaded"
            THEN LoadImportRef(ctx, inst_id, InvalidLocId, target)
            ELSE ctx
      c2 == Emit(c1, EvConstGet(inst_id))
      const_id == c2.constant_values[inst_id]
  IN CASE inst.kind = "Namespace" ->
            [ctx |-> ctx, res |-> InstForMerge(inst, InvalidImportIRInstId)]
       [] inst.kind \in AnyImportRef ->
            IF ~const_id.is_constant
            THEN [ctx |-> c2, res |-> Nullopt]
            ELSE [ctx |-> c2,
                  res |-> InstForMerge(c2.insts[const_id.inst_id],
                                       inst.import_ir_inst_id)]
       [] OTHER ->
            [ctx |-> ctx, res |-> Nullopt]

(* Variant: the Namespace case breaks out of the switch and so reaches the *)
(* constant-value lookup before returning the namespace.                   *)
ResolveMergeableInst_NamespaceReadsConst(ctx, inst_id, target) ==
  LET inst == ctx.insts[inst_id]
      c1 == IF inst.kind = "ImportRefUnloaded"
            THEN LoadImportRef(ctx, inst_id, InvalidLocId, target)
            ELSE ctx
      c2 == Emit(c1, EvConstGet(inst_id))
      const_id == c2.constant_values[inst_id]
  IN CASE inst.kind = "Namespace" ->
            [ctx |-> c2, res |-> InstForMerge(inst, InvalidImportIRInstId)]
       [] inst.kind \in AnyImportRef ->
            IF ~const_id.is_constant
            THEN [ctx |-> c2, res |-> Nullopt]
            ELSE [ctx |-> c2,
                  res |-> InstForMerge(c2.insts[const_id.inst_id],
                                       inst.import_ir_inst_id)]
       [] OTHER ->
            [ctx |-> Abort(ctx, EvFatal(inst_id, inst)), res |-> Nullopt]

ResolveMergeableInst(ctx, inst_id, target) ==
  LET inst == ctx.insts[inst_id]
      c1 == IF inst.kind = "ImportRefUnloaded"
            THEN LoadImportRef(ctx, inst_id, InvalidLocId, target)
            ELSE ctx
      c2 == Emit(c1, EvConstGet(inst_id))
      const_id == c2.constant_values[inst_id]
  IN CASE inst.kind = "Namespace" ->
            [ctx |-> ctx, res |-> InstForMerge(inst, InvalidImportIRInstId)]
       [] inst.kind \in AnyImportRef ->
            IF ~const_id.is_constant
            THEN [ctx |-> c2, res |-> Nullopt]
            ELSE [ctx |-> c2,
                  res |-> InstForMerge(c2.insts[const_id.inst_id],
                                       inst.import_ir_inst_id)]
       [] OTHER ->
            [ctx |-> Abort(ctx, EvFatal(inst_id, inst)), res |-> Nullopt]

(* ------------------------------------------------- ReplacePrevInstForMerge *)
(* Variant: names[name_id] = new_inst_id, which inserts an absent name.    *)
ReplacePrevInstForMerge_Inserts(scopes, scope_id, name_id, new_inst_id) ==
  [scopes EXCEPT ![scope_id] = (name_id :> new_inst_id) @@ @]

ReplacePrevInstForMerge(scopes, scope_id, name_id, new_inst_id) ==
  IF name_id \in DOMAIN scopes[scope_id]
  THEN [scopes EXCEPT ![scope_id][name_id] = new_inst_id]
  ELSE scopes

(* ----------------------------------------------------------- MergeImportRef *)
(* Variant: the merger is handed the new side's import id.                 *)
KindSwitch_NewImportId(ctx, new_inst_id, new_inst, prev_inst) ==
  IF new_inst.inst.kind = "FunctionDecl"
  THEN Emit(ctx, MergeFunctionRedecl(GetLocId(new_inst_id),
                                     FunctionsGet(new_inst.inst.function_id),
                                     TRUE, FALSE,
                                     prev_inst.inst.function_id,
                                     new_inst.import_ir_inst_id))
  ELSE Emit(ctx, TODO(new_inst_id))

(* Variant: the default case reports a duplicate name.                     *)
KindSwitch_DefaultDuplicate(ctx, new_inst_id, new_inst, prev_inst) ==
  IF new_inst.inst.kind = "FunctionDecl"
  THEN Emit(ctx, MergeFunctionRedecl(GetLocId(new_inst_id),
                                     FunctionsGet(new_inst.inst.function_id),
                                     TRUE, FALSE,
                                     prev_inst.inst.function_id,
                                     prev_inst.import_ir_inst_id))
  ELSE Emit(ctx, DiagnoseDuplicateName(new_inst_id, new_inst_id))

(* CARBON_KIND_SWITCH over the resolved new instruction.                   *)
KindSwitch(ctx, new_inst_id, new_inst, prev_inst) ==
  IF new_inst.inst.kind = "FunctionDecl"
  THEN Emit(ctx, MergeFunctionRedecl(GetLocId(new_inst_id),
                                     FunctionsGet(new_inst.inst.function_id),
                                     TRUE, FALSE,
                                     prev_inst.inst.function_id,
                                     prev_inst.import_ir_inst_id))
  ELSE Emit(ctx, TODO(new_inst_id))

(* The part of MergeImportRef after both sides have been resolved.         *)
(* Variant: "not mergeable" returns without diagnosing.                    *)
MergeResolved_SilentNullopt(ctx, new_inst_id, prev_inst_id, new_inst, prev_inst) ==
  IF ~new_inst.has_value \/ ~prev_inst.has_value
  THEN ctx
  ELSE IF new_inst.inst.kind # prev_inst.inst.kind
  THEN Emit(ctx, DiagnoseDuplicateName(new_inst_id, prev_inst_id))
  ELSE KindSwitch(ctx, new_inst_id, new_inst, prev_inst)

(* Variant: the kind comparison is missing.                                *)
MergeResolved_NoKindCheck(ctx, new_inst_id, prev_inst_id, new_inst, prev_inst) ==
  IF ~new_inst.has_value \/ ~prev_inst.has_value
  THEN Emit(ctx, DiagnoseDuplicateName(new_inst_id, prev_inst_id))
  ELSE KindSwitch(ctx, new_inst_id, new_inst, prev_inst)

MergeResolved(ctx, new_inst_id, prev_inst_id, new_inst, prev_inst) ==
  IF ~new_inst.has_value \/ ~prev_inst.has_value
  THEN Emit(ctx, DiagnoseDuplicateName(new_inst_id, prev_inst_id))
  ELSE IF new_inst.inst.kind # prev_inst.inst.kind
  THEN Emit(ctx, DiagnoseDuplicateName(new_inst_id, prev_inst_id))
  ELSE KindSwitch(ctx, new_inst_id, new_inst, prev_inst)

(* Returns [ctx, new_res, prev_res]; a fatal abort ends the call at once.   *)
MergeImportRef(ctx, new_inst_id, prev_inst_id, new_target, prev_target) ==
  LET r1 == ResolveMergeableInst(ctx, new_inst_id, new_target)
      r2 == ResolveMergeableInst(r1.ctx, prev_inst_id, prev_target)
  IN IF r1.ctx.fatal
     THEN [ctx |-> r1.ctx, new_res |-> Nullopt, prev_res |-> Nullopt]
     ELSE IF r2.ctx.fatal
     THEN [ctx |-> r2.ctx, new_res |-> r1.res, prev_res |-> Nullopt]
     ELSE [ctx |-> MergeResolved(r2.ctx, new_inst_id, prev_inst_id, r1.res, r2.res),
           new_res |-> r1.res, prev_res |-> r2.res]

(* ------------------------------------------------------------ state machine *)
(* What the loader may find for an id: only an unloaded reference loads.   *)
TargetsFor(store, inst_id) ==
  IF store[inst_id].kind = "ImportRefUnloaded" THEN LoadTargets ELSE {NotConstant}

(* Outcomes of the arena read ResolvePrevInstForMerge makes for an id.     *)
OutcomesFor(store, cv, inst_id) ==
  IF store[inst_id].kind \in AnyImportRef /\ ~cv[inst_id].is_constant
  THEN OutOfRangeOutcomes ELSE {"abort"}

NoCall ==
  [op |-> "none", new_inst_id |-> InvalidInstId, prev_inst_id |-> InvalidInstId,
   node_id |-> 0, scope_id |-> 0, name_id |-> 0, pre_insts |-> InitInsts,
   trace |-> <<>>, fatal |-> FALSE, new_res |-> Nullopt, prev_res |-> Nullopt]

Init ==
  /\ insts = InitInsts
  /\ \E t \in LoadTargets :
       constant_values = [i \in InstIds |->
          IF i = 3 THEN t
          ELSE IF i \in ConstantInstIds THEN ConstantFor(i)
          ELSE NotConstant]
  /\ name_scopes = InitNameScopes
  /\ call = NoCall
  /\ ncalls = 0

CanCall == ncalls < MaxCalls /\ ~call.fatal

DoResolvePrevInstForMerge ==
  /\ CanCall
  /\ \E node_id \in NodeIds, prev_inst_id \in InstIds :
     \E oob \in OutcomesFor(insts, constant_values, prev_inst_id) :
       LET r == ResolvePrevInstForMerge(Ctx(insts, constant_values), node_id,
                                        prev_inst_id, oob)
       IN /\ insts' = r.ctx.insts
          /\ constant_values' = r.ctx.constant_values
          /\ call' = [NoCall EXCEPT !.op = "ResolvePrevInstForMerge",
                                    !.node_id = node_id,
                                    !.prev_inst_id = prev_inst_id,
                                    !.pre_insts = insts,
                                    !.trace = r.ctx.trace,
                                    !.fatal = r.ctx.fatal,
                                    !.prev_res = r.res]
  /\ ncalls' = ncalls + 1
  /\ UNCHANGED name_scopes

DoMergeImportRef ==
  /\ CanCall
  /\ \E new_inst_id \in InstIds, prev_inst_id \in InstIds :
     \E new_target \in TargetsFor(insts, new_inst_id),
        prev_target \in TargetsFor(insts, prev_inst_id) :
       LET r == MergeImportRef(Ctx(insts, constant_values), new_inst_id,
                               prev_inst_id, new_target, prev_target)
       IN /\ insts' = r.ctx.insts
          /\ constant_values' = r.ctx.constant_values
          /\ call' = [NoCall EXCEPT !.op = "MergeImportRef",
                                    !.new_inst_id = new_inst_id,
                                    !.prev_inst_id = prev_inst_id,
                                    !.pre_insts = insts,
                                    !.trace = r.ctx.trace,
                                    !.fatal = r.ctx.fatal,
                                    !.new_res = r.new_res,
                                    !.prev_res = r.prev_res]
  /\ ncalls' = ncalls + 1
  /\ UNCHANGED name_scopes

DoReplacePrevInstForMerge ==
  /\ CanCall
  /\ \E scope_id \in ScopeIds, name_id \in NameIds, new_inst_id \in RebindIds :
       /\ name_scopes' = ReplacePrevInstForMerge(name_scopes, scope_id, name_id,
                                                 new_inst_id)
       /\ call' = [NoCall EXCEPT !.op = "ReplacePrevInstForMerge",
                                 !.scope_id = scope_id,
                                 !.name_id = name_id,
                                 !.new_inst_id = new_inst_id,
                                 !.pre_insts = insts]
  /\ ncalls' = ncalls + 1
  /\ UNCHANGED <<insts, constant_values>>

Next ==
  \/ DoResolvePrevInstForMerge
  \/ DoMergeImportRef
  \/ DoReplacePrevInstForMerge

Spec == Init /\ [][Next]_vars

TypeOK ==
  /\ DOMAIN insts = InstIds
  /\ DOMAIN constant_values = InstIds
  /\ ncalls \in 0..MaxCalls

(* ------------------------------------------------- reading the call record *)
IsMerge == call.op = "MergeImportRef"
IsResolvePrev == call.op = "ResolvePrevInstForMerge"
IsReplace == call.op = "ReplacePrevInstForMerge"

MergeableKinds == AnyImportRef \cup {"Namespace"}
PreKind(inst_id) == call.pre_insts[inst_id].kind

DiagEvents == SelectSeq(call.trace, LAMBDA e : e.ev = "Diag")
DiagsOf(d) == SelectSeq(call.trace, LAMBDA e : e.ev = "Diag" /\ e.diag = d)
MergerEvents == SelectSeq(call.trace, LAMBDA e : e.ev = "MergeFunctionRedecl")
FatalEvents == SelectSeq(call.trace, LAMBDA e : e.ev = "Fatal")
LoadsOf(inst_id) ==
  SelectSeq(call.trace, LAMBDA e : e.ev = "LoadImportRef" /\ e.inst_id = inst_id)
ConstReadsOf(inst_id) ==
  SelectSeq(call.trace, LAMBDA e : e.ev = "ConstantValuesGet" /\ e.inst_id = inst_id)

(* The side is an import reference whose constant value is non-constant.   *)
SideNonConstant(inst_id) ==
  PreKind(inst_id) \in AnyImportRef /\ ~constant_values[inst_id].is_constant

BothResolved == IsMerge /\ ~call.fatal /\ call.new_res.has_value /\ call.prev_res.has_value

(* ------------------------------------------------------------------ claims *)

(* C1: in a MergeImportRef call on two import references or namespaces,    *)
(* if the constant-value table reports non-constant for at least one side, *)
(* exactly one duplicate-name diagnostic for (new, prev) is emitted, the   *)
(* function merger and the "not yet supported" diagnostic are not used,    *)
(* and the call does not abort.                                            *)
C1_Case ==
  /\ IsMerge
  /\ PreKind(call.new_inst_id) \in MergeableKinds
  /\ PreKind(call.prev_inst_id) \in MergeableKinds
  /\ SideNonConstant(call.new_inst_id) \/ SideNonConstant(call.prev_inst_id)

C2_Case == BothResolved /\ call.new_res.inst.kind # call.prev_res.inst.kind

C2_KindMismatchDiagnosesDuplicate ==
  C2_Case =>
    /\ DiagEvents = <<DiagnoseDuplicateName(call.new_inst_id, call.prev_inst_id)>>
    /\ MergerEvents = <<>>

C2_Witness ==
  /\ C2_Case
  /\ call.new_res.inst.kind = "FunctionDecl"
  /\ call.prev_res.inst.kind = "ClassDecl"
  /\ Len(DiagEvents) = 1

(* C3: when both sides resolve to a function declaration, the function     *)
(* merger is invoked exactly once with the new declaration's function,     *)
(* new_is_import = true, new_is_definition = false, the previous           *)
(* declaration's function id and the previous import reference's import    *)
(* id; the orchestrator emits no diagnostic.                               *)
C3_Case ==
  /\ BothResolved
  /\ call.new_res.inst.kind = "FunctionDecl"
  /\ call.prev_res.inst.kind = "FunctionDecl"

C3_FunctionDeclsInvokeMerger ==
  C3_Case =>
    LET new_decl == insts[constant_values[call.new_inst_id].inst_id]
        prev_decl == insts[constant_values[call.prev_inst_id].inst_id]
    IN /\ Len(MergerEvents) = 1
       /\ MergerEvents[1].new_fn = FunctionsGet(new_decl.function_id)
       /\ MergerEvents[1].new_is_import = TRUE
       /\ MergerEvents[1].new_is_definition = FALSE
       /\ MergerEvents[1].prev_function_id = prev_decl.function_id
       /\ MergerEvents[1].prev_import_ir_inst_id
            = call.pre_insts[call.prev_inst_id].import_ir_inst_id
       /\ MergerEvents[1].loc_id = GetLocId(call.new_inst_id)
       /\ DiagEvents = <<>>

C3_Witness ==
  /\ C3_Case
  /\ call.new_inst_id # call.prev_inst_id
  /\ call.new_res.inst.function_id # call.prev_res.inst.function_id
  /\ Len(MergerEvents) = 1

(* C4 (as stated): merging two local function declarations invokes the     *)
(* function merger exactly once, with new_is_import = false and no         *)
(* originating import id.                                                  *)
C4_Case ==
  /\ IsMerge
  /\ PreKind(call.new_inst_id) = "FunctionDecl"
  /\ PreKind(call.prev_inst_id) = "FunctionDecl"

C4_Original ==
  C4_Case =>
    /\ Len(MergerEvents) = 1
    /\ MergerEvents[1].new_is_import = FALSE
    /\ MergerEvents[1].prev_import_ir_inst_id = InvalidImportIRInstId

(* C4 (amended): ResolvePrevInstForMerge resolves a local function         *)
(* declaration to itself, of FunctionDecl kind, with no originating import *)
(* id; MergeImportRef on two local function declarations aborts fatally    *)
(* while resolving the new declaration, resolves neither side and never    *)
(* invokes the function merger; every invocation of the merger that        *)
(* MergeImportRef makes carries new_is_import = true.                      *)
C4_LocalFunctionDeclsAbort ==
  /\ (IsResolvePrev /\ PreKind(call.prev_inst_id) = "FunctionDecl") =>
       /\ call.prev_res.has_value
       /\ call.prev_res.inst.kind = "FunctionDecl"
       /\ call.prev_res.import_ir_inst_id = InvalidImportIRInstId
  /\ C4_Case =>
       /\ call.fatal
       /\ call.trace = <<EvFatal(call.new_inst_id, call.pre_insts[call.new_inst_id])>>
       /\ ~call.new_res.has_value /\ ~call.prev_res.has_value
  /\ IsMerge =>
       \A i \in 1..Len(MergerEvents) : MergerEvents[i].new_is_import = TRUE

C4_Witness ==
  /\ C4_Case
  /\ call.new_inst_id # call.prev_inst_id
  /\ call.fatal
  /\ MergerEvents = <<>>

(* C5: ResolvePrevInstForMerge on a used import reference emits exactly    *)
(* one Error at the redeclaration location with exactly one Note at the    *)
(* reference's used_id, and still returns the instruction the constant-    *)
(* value table designates for the id, tagged with the reference's import   *)
(* id; on an import reference not marked used it returns the same and      *)
(* emits nothing.                                                          *)
C5_Case == IsResolvePrev /\ PreKind(call.prev_inst_id) \in AnyImportRef

C6_Case == IsResolvePrev /\ PreKind(call.prev_inst_id) \notin AnyImportRef

C6_LocalPrevReturnedUnchanged ==
  C6_Case =>
    /\ call.prev_res = InstForMerge(call.pre_insts[call.prev_inst_id],
                                    InvalidImportIRInstId)
    /\ call.trace = <<>>
    /\ ~call.fatal
    /\ insts = call.pre_insts

C6_Witness ==
  /\ C6_Case
  /\ call.prev_res.has_value
  /\ call.prev_res.inst.kind = "FunctionDecl"

(* C7: a ReplacePrevInstForMerge call never changes the set of names bound *)
(* in any scope: on an absent name it leaves every scope table unchanged,  *)
(* on a present name it changes only that name's binding in that scope to  *)
(* the given id.                                                           *)
C7_Step ==
  (ncalls' # ncalls /\ call'.op = "ReplacePrevInstForMerge") =>
    LET s == call'.scope_id
        n == call'.name_id
    IN /\ \A t \in ScopeIds : DOMAIN name_scopes'[t] = DOMAIN name_scopes[t]
       /\ \A t \in ScopeIds \ {s} : name_scopes'[t] = name_scopes[t]
       /\ \A m \in DOMAIN name_scopes[s] \ {n} :
            name_scopes'[s][m] = name_scopes[s][m]
       /\ n \in DOMAIN name_scopes[s] => name_scopes'[s][n] = call'.new_inst_id
       /\ n \notin DOMAIN name_scopes[s] => name_scopes' = name_scopes

C7_RebindNeverInserts == [][C7_Step]_vars

C7_Witness ==
  /\ IsReplace
  /\ ncalls = 2
  /\ call.name_id \notin DOMAIN name_scopes[call.scope_id]
  /\ name_scopes # InitNameScopes

(* C8: resolving an instruction that is neither an import reference nor a  *)
(* namespace, through either argument of MergeImportRef, ends in a fatal   *)
(* abort naming the offending instruction, with no user-facing diagnostic, *)
(* no merge handler and no result for that side.                           *)
C8_Case ==
  /\ IsMerge
  /\ \/ PreKind(call.new_inst_id) \notin MergeableKinds
     \/ PreKind(call.prev_inst_id) \notin MergeableKinds

C8_Offender ==
  IF PreKind(call.new_inst_id) \notin MergeableKinds
  THEN call.new_inst_id ELSE call.prev_inst_id

C8_UnexpectedKindIsFatal ==
  C8_Case =>
    /\ call.fatal
    /\ FatalEvents = <<EvFatal(C8_Offender, call.pre_insts[C8_Offender])>>
    /\ call.trace[Len(call.trace)].ev = "Fatal"
    /\ DiagEvents = <<>>
    /\ MergerEvents = <<>>
    /\ ~call.prev_res.has_value
    /\ C8_Offender = call.new_inst_id => ~call.new_res.has_value

C8_Witness ==
  /\ C8_Case
  /\ PreKind(call.new_inst_id) = "ImportRefUnloaded"
  /\ PreKind(call.prev_inst_id) = "ClassDecl"
  /\ call.new_res.has_value
  /\ call.fatal

(* C9: when both sides resolve to the same kind and it is not a function   *)
(* declaration, exactly one "Merging not yet supported" diagnostic is      *)
(* emitted at the new instruction, with no duplicate-name diagnostic and   *)
(* no function merger invocation.                                          *)
C9_Case ==
  /\ BothResolved
  /\ call.new_res.inst.kind = call.prev_res.inst.kind
  /\ call.new_res.inst.kind # "FunctionDecl"

C9_SameKindUnsupported ==
  C9_Case =>
    /\ DiagEvents = <<[ev |-> "Diag", diag |-> "TODO", loc |-> call.new_inst_id,
                       message |-> "Merging not yet supported."]>>
    /\ MergerEvents = <<>>

C9_Witness ==
  /\ C9_Case
  /\ PreKind(call.new_inst_id) = "Namespace"
  /\ PreKind(call.prev_inst_id) = "Namespace"
  /\ Len(DiagsOf("TODO")) = 1

(* Position of the first event of the trace satisfying the test, or 0.     *)
FirstLoad(inst_id) ==
  LET hits == {i \in 1..Len(call.trace) :
                 call.trace[i].ev = "LoadImportRef" /\ call.trace[i].inst_id = inst_id}
  IN IF hits = {} THEN 0 ELSE CHOOSE i \in hits : \A j \in hits : i <= j

FirstConstRead(inst_id) ==
  LET hits == {i \in 1..Len(call.trace) :
                 call.trace[i].ev = "ConstantValuesGet" /\ call.trace[i].inst_id = inst_id}
  IN IF hits = {} THEN 0 ELSE CHOOSE i \in hits : \A j \in hits : i <= j

(* What the claim requires of one argument of a MergeImportRef call.       *)
C10_LoadDiscipline(inst_id, res) ==
  /\ Len(LoadsOf(inst_id)) = (IF PreKind(inst_id) = "ImportRefUnloaded" THEN 1 ELSE 0)
  /\ FirstConstRead(inst_id) # 0 =>
       /\ PreKind(inst_id) = "ImportRefUnloaded" =>
            /\ FirstLoad(inst_id) # 0
            /\ FirstLoad(inst_id) < FirstConstRead(inst_id)
  /\ PreKind(inst_id) = "Namespace" =>
       /\ ConstReadsOf(inst_id) = <<>>
       /\ res = InstForMerge(call.pre_insts[inst_id], InvalidImportIRInstId)

(* C10 (as stated): in every MergeImportRef call, for each of the two ids, *)
(* the loader is invoked exactly when the id is an unloaded import         *)
(* reference, the load precedes the constant-value read for the id, and a  *)
(* Namespace is returned at once without reading the constant-value table. *)
C10_Original ==
  IsMerge =>
    /\ C10_LoadDiscipline(call.new_inst_id, call.new_res)
    /\ C10_LoadDiscipline(call.prev_inst_id, call.prev_res)

(* C10 (amended): the same, for each id whose resolution the call reaches: *)
(* the new id always, the previous id unless resolving the new id aborted  *)
(* fatally, in which case the previous id is neither loaded nor looked up. *)
C10_PrevReached == PreKind(call.new_inst_id) \in MergeableKinds

C10_LoadBeforeConstantRead ==
  IsMerge =>
    /\ C10_LoadDiscipline(call.new_inst_id, call.new_res)
    /\ C10_PrevReached => C10_LoadDiscipline(call.prev_inst_id, call.prev_res)
    /\ ~C10_PrevReached =>
         /\ call.fatal
         /\ call.prev_inst_id # call.new_inst_id =>
              /\ LoadsOf(call.prev_inst_id) = <<>>
              /\ ConstReadsOf(call.prev_inst_id) = <<>>
              /\ insts[call.prev_inst_id] = call.pre_insts[call.prev_inst_id]

C10_Witness ==
  /\ IsMerge
  /\ PreKind(call.new_inst_id) = "ImportRefUnloaded"
  /\ PreKind(call.prev_inst_id) = "ImportRefUnloaded"
  /\ call.new_inst_id # call.prev_inst_id
  /\ Len(LoadsOf(call.new_inst_id)) = 1
  /\ Len(LoadsOf(call.prev_inst_id)) = 1
  /\ FirstLoad(call.prev_inst_id) < FirstConstRead(call.prev_inst_id)

====
